---- MODULE Spec2Model ----
(***************************************************************************)
(* The binary classifier of src/prediction/predictor_model.py: the         *)
(* Classifier facade (fit, predict, predict_proba, evaluate, save, load)   *)
(* and the training loop that Classifier.fit drives through its three      *)
(* epoch-end callbacks (EarlyStopping, InfCostStopCallback, the periodic   *)
(* logger).                                                                *)
(*                                                                         *)
(* Floating-point values are modelled as tagged records: a finite value    *)
(* Fin(n) counts units of 5e-4, PosInf is float("inf") and NaN is          *)
(* not-a-number; comparisons follow IEEE 754 (any comparison with NaN is   *)
(* false).  A random generator is a stream name and a position in that     *)
(* stream; a draw returns the generator's state and advances it.           *)
(***************************************************************************)
EXTENDS Integers, Sequences, FiniteSets, TLC

\* ------------------------------------------------------------------ bounds
\* Finite losses range over 0..MaxLoss (units of 5e-4).
MaxLoss == 3
\* The largest epoch limit a caller passes to fit in the training runs.
MaxEpochs == 22
\* The fit calls of a lifecycle run.
MaxFits == 2
\* Positions of a random stream are counted modulo RngMod.
RngMod == 4
\* Prediction inputs range over 0..MaxX.
MaxX == 1
\* Probabilities range over 0..ProbScale (ProbScale stands for 1.0).
ProbScale == 4

\* ------------------------------------------------------------------ inputs
\* The widths (column counts) of the training and prediction inputs.
Widths == {1, 2}
\* The learning rates a Classifier is constructed with (units of 1e-3).
LearningRates == {1}
\* The epoch limits passed to fit in the lifecycle runs.
ShortEpochs == {1}

\* ------------------------------------------------------- program constants
\* patience=20 of the EarlyStopping callback.
Patience == 20
\* min_delta=1e-3 of the EarlyStopping callback, in units of 5e-4.
MinDelta == 2
\* self._log_period = 10.
LogPeriod == 10
\* "use 15% validation split if at least 300 samples".
MinSplitRows == 300
ValidationSplitPct == 15
\* validation_split = None.
NoSplit == 0
\* D: Optional[int] = None.
NoneD == 0
\* num_cps: Optional[int] = 2, range 1 <= num_cps <= 3.
DefaultNumCps == 2
MaxNumCps == 3
\* The widths of the two hidden Dense layers: min(100, D*5) and D*2.
MaxHidden == 100
HiddenFactor == 5
SecondFactor == 2

\* ------------------------------------------------------------------ floats
Fin(n) == [tag |-> "fin", v |-> n]
PosInf == [tag |-> "inf", v |-> 0]
NaN == [tag |-> "nan", v |-> 0]
COST_THRESHOLD == PosInf

Losses == {Fin(n) : n \in 0..MaxLoss} \cup {PosInf, NaN}
CoarseLosses == {Fin(0), NaN}

is_nan(a) == a.tag = "nan"

\* a == b on floats.
FEq(a, b) == ~is_nan(a) /\ ~is_nan(b) /\ a = b

\* a < b on floats (np.less).
FLess(a, b) ==
    CASE is_nan(a) \/ is_nan(b) -> FALSE
      [] a.tag = "inf" -> FALSE
      [] b.tag = "inf" -> TRUE
      [] OTHER -> a.v < b.v

\* a + d for a finite d.
FAdd(a, d) == IF a.tag = "fin" THEN Fin(a.v + d) ELSE a

\* ------------------------------------------------------- random generators
\* numpy's global generator is never seeded by this program: one stream.
NpStart == [stream |-> "np_entropy", pos |-> 0]
\* TensorFlow's global generator before any tf.random.set_seed call.
TfStart == [stream |-> "tf_entropy", pos |-> 0]

Advance(rng, k) == [rng EXCEPT !.pos = (rng.pos + k) % RngMod]

\* The k draws made one after the other from generator state rng.
Draws(rng, k) == [i \in 1..k |-> Advance(rng, i - 1)]

\* get_init_values(shape): one np.random.randn block.
get_init_values(rng) == [vals |-> rng, rng |-> Advance(rng, 1)]

\* tf.random.set_seed(0).
set_seed_0(rng) == [stream |-> "tf_seed_0", pos |-> 0]

\* ----------------------------------------------------------------- network
\* TrainableActivationLayer.build: locations, location_values, lambda_.
TrainableActivationLayer_build(rng) ==
    LET l1 == get_init_values(rng)
        l2 == get_init_values(l1.rng)
        l3 == get_init_values(l2.rng)
    IN  [params |-> [locations |-> l1.vals,
                     location_values |-> l2.vals,
                     lambda_ |-> l3.vals],
         rng |-> l3.rng]

Min(a, b) == IF a < b THEN a ELSE b

\* Classifier.build_model for hyperparameters (D, lr, num_cps), drawing the
\* activation parameters from numpy's generator and the three Dense kernels
\* from TensorFlow's.  The result is a network that has trained on nothing.
build_model(D, lr, num_cps, np, tf) ==
    LET a1 == TrainableActivationLayer_build(np)
        a2 == TrainableActivationLayer_build(a1.rng)
    IN  [net |-> [D |-> D,
                  lr |-> lr,
                  num_cps |-> num_cps,
                  units |-> <<Min(MaxHidden, D * HiddenFactor), D * SecondFactor, 1>>,
                  wts |-> [act |-> <<a1.params, a2.params>>,
                           dense |-> Draws(tf, 3),
                           updates |-> <<>>]],
         np |-> a2.rng,
         tf |-> Advance(tf, 3)]

\* The forward pass of a network on input x: the probability of class 1, a
\* function of every trainable parameter and of the input.
_predict(net, x) ==
    LET w == net.wts
        s == w.act[1].locations.pos + w.act[1].location_values.pos
             + w.act[1].lambda_.pos + w.act[2].locations.pos
             + w.act[2].location_values.pos + w.act[2].lambda_.pos
             + w.dense[1].pos + w.dense[2].pos + w.dense[3].pos
             + (IF w.dense[1].stream = "tf_seed_0" THEN 1 ELSE 0)
             + Len(w.updates) + net.num_cps + net.units[1]
    IN  (s + x) % (ProbScale + 1)

\* Classifier.predict: class 1 iff the probability is >= 0.5.
predict(net, x) == IF 2 * _predict(net, x) >= ProbScale THEN 1 ELSE 0

\* Classifier.predict_proba: <<1 - p, p>>.
predict_proba(net, x) == <<ProbScale - _predict(net, x), _predict(net, x)>>

\* --------------------------------------------------------------- variables
VARIABLES
    clf,              \* the Classifier: [D, lr, num_cps, model]; model is {} (None) or {network}
    loaded,           \* <<the Classifier the last call returned>> (a load), else <<>>
    disk,             \* the model directory: [exists, params, wts]
    np_rng,           \* numpy's global generator
    tf_rng,           \* TensorFlow's global generator
    call,             \* the last API call and the exception it raised: [op, raised]
    pc,               \* where the running fit call stands ("idle": no call runs)
    fitArgs,          \* the running fit call's arguments
    epoch,            \* the loop variable of the training loop
    logs,             \* the epoch's metrics (<<>> between epochs)
    cbIdx,            \* the next callback of the list to run at this epoch's end
    loss_to_monitor,  \* fit's local
    validation_split, \* fit's local
    stop_training,    \* self.model.stop_training, the flag of the Classifier's network
    es,               \* the EarlyStopping callback: [monitor, wait, best, stopped_epoch]
    logOut,           \* the records the running fit call has had the logger emit
    fitted,           \* history: some fit call has returned normally
    fitCount,         \* history: the fit calls begun so far
    savedClf,         \* history: <<the Classifier as it was at the last save>>
    prevFit,          \* history: <<the previous fit call's inputs and initial network>>
    badEpoch,         \* history: the first epoch whose training loss was NaN or infinite (-1: none)
    minSeen,          \* history: the lowest monitored loss of the run's earlier epochs
    flatRun,          \* history: consecutive epochs that did not improve on minSeen by >= MinDelta
    refBest,          \* history: the monitored loss at the last epoch that improved by > MinDelta
    refRun,           \* history: consecutive epochs that did not improve on refBest by > MinDelta
    handled           \* history: callback name -> the last epoch whose end it handled (-1: none)

lifeVars == <<clf, loaded, disk, np_rng, tf_rng, call>>
runVars == <<pc, fitArgs, epoch, logs, cbIdx, loss_to_monitor, validation_split,
            stop_training, es, logOut>>
lifeHist == <<fitted, fitCount, savedClf, prevFit>>
runHist == <<badEpoch, minSeen, flatRun, refBest, refRun, handled>>
vars == <<lifeVars, runVars, lifeHist, runHist>>

\* The callbacks of self.model.fit, in the order of the list.
callbacksDivergenceFirst == <<"infcost_stop_callback", "early_stop_callback", "logger_callback">>
callbacks == <<"early_stop_callback", "infcost_stop_callback", "logger_callback">>

TheModel(c) == CHOOSE n \in c.model : TRUE

fitCalled == fitCount > 0

\* Classifier.__init__.
Classifier(D, lr, num_cps) == [D |-> D, lr |-> lr, num_cps |-> num_cps, model |-> {}]

\* EarlyStopping(monitor=..., min_delta=1e-3, patience=20) after on_train_begin.
EarlyStopping(monitor) ==
    [monitor |-> monitor, wait |-> 0, best |-> PosInf, stopped_epoch |-> 0]

NoCall == [op |-> "none", raised |-> "none"]
NoHandled == [cb \in {callbacks[i] : i \in 1..Len(callbacks)} |-> -1]

Init ==
    /\ \E D \in {NoneD} \cup Widths, lr \in LearningRates, k \in 1..MaxNumCps :
           clf = Classifier(D, lr, k)
    /\ loaded = <<>>
    /\ disk = [exists |-> FALSE, params |-> <<>>, wts |-> <<>>]
    /\ np_rng = NpStart
    /\ tf_rng = TfStart
    /\ call = NoCall
    /\ pc = "idle"
    /\ fitArgs = [width |-> 1, nrows |-> 1, epochs |-> 0, targetsOk |-> TRUE]
    /\ epoch = 0
    /\ logs = <<>>
    /\ cbIdx = 0
    /\ loss_to_monitor = "loss"
    /\ validation_split = NoSplit
    /\ stop_training = FALSE
    /\ es = EarlyStopping("loss")
    /\ logOut = <<>>
    /\ fitted = FALSE
    /\ fitCount = 0
    /\ savedClf = <<>>
    /\ prevFit = <<>>
    /\ badEpoch = -1
    /\ minSeen = PosInf
    /\ flatRun = 0
    /\ refBest = PosInf
    /\ refRun = 0
    /\ handled = NoHandled

\* ------------------------------------------------------------ Classifier.fit
\* self.D = train_inputs.shape[1]
FitDKeepsKnownD(c, width) == IF c.D = NoneD THEN width ELSE c.D
FitD(c, width) == width

\* self.model = self.build_model()
FitModelKeepsOld(c, built) == IF c.model = {} THEN {built} ELSE c.model
FitModel(c, built) == {built}

\* if train_inputs.shape[0] < 300
UseTrainingLossUpTo300(nrows) == nrows <= MinSplitRows
UseTrainingLoss(nrows) == nrows < MinSplitRows

FitRecord(c, args, net) ==
    [width |-> args.width, nrows |-> args.nrows, epochs |-> args.epochs,
     targetsOk |-> args.targetsOk, lr |-> c.lr, num_cps |-> c.num_cps,
     init |-> net.wts]

\* The running (or last) fit call's inputs and initial network.
ThisFit == FitRecord(clf, fitArgs, TheModel(clf))

\* Lines 243-245: the call begins, sets D and builds the network.
FitBuild(width, nrows, epochs, targetsOk) ==
    /\ pc = "idle"
    /\ LET args == [width |-> width, nrows |-> nrows, epochs |-> epochs,
                    targetsOk |-> targetsOk]
           D == FitD(clf, width)
           b == build_model(D, clf.lr, clf.num_cps, np_rng, tf_rng)
       IN  /\ clf' = [clf EXCEPT !.D = D, !.model = FitModel(clf, b.net)]
           /\ np_rng' = b.np
           /\ tf_rng' = b.tf
           /\ fitArgs' = args
           /\ prevFit' = IF fitCalled THEN <<ThisFit>> ELSE <<>>
    /\ pc' = "built"
    /\ call' = [op |-> "fit", raised |-> "none"]
    /\ epoch' = 0
    /\ logs' = <<>>
    /\ cbIdx' = 0
    /\ loss_to_monitor' = "loss"
    /\ validation_split' = NoSplit
    /\ stop_training' = FALSE
    /\ es' = EarlyStopping("loss")
    /\ logOut' = <<>>
    /\ badEpoch' = -1
    /\ minSeen' = PosInf
    /\ flatRun' = 0
    /\ refBest' = PosInf
    /\ refRun' = 0
    /\ handled' = NoHandled
    /\ loaded' = <<>>
    /\ fitCount' = fitCount + 1
    /\ UNCHANGED <<disk, fitted, savedClf>>

\* Line 248: tf.random.set_seed(0).
FitSetSeed ==
    /\ pc = "built"
    /\ tf_rng' = set_seed_0(tf_rng)
    /\ pc' = "seeded"
    /\ UNCHANGED <<clf, loaded, disk, np_rng, call, fitArgs, epoch, logs, cbIdx,
                   loss_to_monitor, validation_split, stop_training, es, logOut,
                   lifeHist, runHist>>

\* Lines 250-279, up to the first epoch: the monitored loss and the split are
\* chosen, the callbacks are created, and self.model.fit begins (it resets
\* stop_training and calls on_train_begin).
FitStartTraining ==
    /\ pc = "seeded"
    /\ fitArgs.targetsOk
    /\ loss_to_monitor' = IF UseTrainingLoss(fitArgs.nrows) THEN "loss" ELSE "val_loss"
    /\ validation_split' = IF UseTrainingLoss(fitArgs.nrows) THEN NoSplit
                           ELSE ValidationSplitPct
    /\ es' = EarlyStopping(loss_to_monitor')
    /\ stop_training' = FALSE
    /\ epoch' = 0
    /\ pc' = "loop"
    /\ UNCHANGED <<clf, loaded, disk, np_rng, tf_rng, call, fitArgs, logs, cbIdx, logOut,
                   lifeHist, runHist>>

\* self.model.fit raises before the first epoch (train_targets does not match
\* train_inputs): the exception leaves fit, self.D and self.model stay set.
FitTrainingRaises ==
    /\ pc = "seeded"
    /\ ~fitArgs.targetsOk
    /\ pc' = "idle"
    /\ call' = [op |-> "fit", raised |-> "ValueError"]
    /\ UNCHANGED <<clf, loaded, disk, np_rng, tf_rng, fitArgs, epoch, logs, cbIdx,
                   loss_to_monitor, validation_split, stop_training, es, logOut,
                   lifeHist, runHist>>

\* ------------------------------------------------- what the claims speak of
\* The loss is NaN or infinite.
Diverged(l) == l.tag \in {"nan", "inf"}

\* m is lower than ref by at least d.
ImprovesByAtLeast(m, ref, d) ==
    CASE m.tag # "fin" \/ ref.tag = "nan" -> FALSE
      [] ref.tag = "inf" -> TRUE
      [] OTHER -> ref.v - m.v >= d

\* m is lower than ref by more than d.
ImprovesByMoreThan(m, ref, d) ==
    CASE m.tag # "fin" \/ ref.tag = "nan" -> FALSE
      [] ref.tag = "inf" -> TRUE
      [] OTHER -> ref.v - m.v > d

\* ------------------------------------------------------- the training loop
\* One epoch of training (shuffle=True draws the epoch's order) and, with a
\* validation split, of validation.  The losses are whatever the data give.
TrainEpoch(lossSet) ==
    /\ pc = "loop"
    /\ epoch < fitArgs.epochs
    /\ \E l \in lossSet, v \in lossSet :
          /\ logs' = IF validation_split = NoSplit THEN [loss |-> l]
                     ELSE [loss |-> l, val_loss |-> v]
          /\ validation_split = NoSplit => v = l
    /\ clf' = [clf EXCEPT !.model =
                  {[TheModel(clf) EXCEPT !.wts.updates = Append(@, tf_rng)]}]
    /\ tf_rng' = Advance(tf_rng, 1)
    /\ cbIdx' = 1
    /\ pc' = "epoch_end"
    /\ LET m == logs'[loss_to_monitor]
       IN  /\ badEpoch' = IF badEpoch = -1 /\ Diverged(logs'.loss) THEN epoch ELSE badEpoch
           /\ flatRun' = IF ImprovesByAtLeast(m, minSeen, MinDelta) THEN 0 ELSE flatRun + 1
           /\ minSeen' = IF FLess(m, minSeen) THEN m ELSE minSeen
           /\ refRun' = IF ImprovesByMoreThan(m, refBest, MinDelta) THEN 0 ELSE refRun + 1
           /\ refBest' = IF ImprovesByMoreThan(m, refBest, MinDelta) THEN m ELSE refBest
    /\ UNCHANGED <<loaded, disk, np_rng, call, fitArgs, epoch, loss_to_monitor,
                   validation_split, stop_training, es, logOut, lifeHist, handled>>

NextCallback(name) ==
    /\ pc = "epoch_end"
    /\ cbIdx <= Len(callbacks)
    /\ callbacks[cbIdx] = name
    /\ cbIdx' = cbIdx + 1
    /\ handled' = [handled EXCEPT ![name] = epoch]

\* EarlyStopping._is_improvement with monitor_op = np.less: min_delta was
\* negated, so the test is current - (-min_delta) < best.
is_improvementNoDelta(current, best) == FLess(current, best)
is_improvement(current, best) == FLess(FAdd(current, MinDelta), best)

\* EarlyStopping.on_epoch_end: the callback after the call, and whether it
\* set model.stop_training.
EarlyStopping_on_epoch_end(e, ep, current) ==
    LET waited == [e EXCEPT !.wait = e.wait + 1]
    IN  IF is_improvement(current, e.best)
        THEN [es |-> [waited EXCEPT !.best = current, !.wait = 0], stop |-> FALSE]
        ELSE IF waited.wait >= Patience /\ ep > 0
        THEN [es |-> [waited EXCEPT !.stopped_epoch = ep], stop |-> TRUE]
        ELSE [es |-> waited, stop |-> FALSE]

EarlyStoppingEpochEnd ==
    /\ NextCallback("early_stop_callback")
    /\ LET r == EarlyStopping_on_epoch_end(es, epoch, logs[es.monitor])
       IN  /\ es' = r.es
           /\ stop_training' = (r.stop \/ stop_training)
    /\ UNCHANGED <<clf, loaded, disk, np_rng, tf_rng, call, pc, fitArgs, epoch, logs,
                   loss_to_monitor, validation_split, logOut, lifeHist,
                   badEpoch, minSeen, flatRun, refBest, refRun>>

\* loss_val = logs.get("loss")
InfCostLossValMonitored(l) == l[loss_to_monitor]
InfCostLossVal(l) == l.loss

\* if loss_val == COST_THRESHOLD or tf.math.is_nan(loss_val)
InfCostConditionNaNOnly(loss_val) == is_nan(loss_val)
InfCostCondition(loss_val) == FEq(loss_val, COST_THRESHOLD) \/ is_nan(loss_val)

\* InfCostStopCallback.on_epoch_end
InfCostEpochEnd ==
    /\ NextCallback("infcost_stop_callback")
    /\ LET loss_val == InfCostLossVal(logs)
       IN  IF InfCostCondition(loss_val)
           THEN /\ logOut' = Append(logOut, [level |-> "warning", epoch |-> epoch])
                /\ stop_training' = TRUE
           ELSE UNCHANGED <<logOut, stop_training>>
    /\ UNCHANGED <<clf, loaded, disk, np_rng, tf_rng, call, pc, fitArgs, epoch, logs,
                   loss_to_monitor, validation_split, es, lifeHist,
                   badEpoch, minSeen, flatRun, refBest, refRun>>

\* if log_count % log_period == 0
LogDue(log_count) == log_count % LogPeriod = 0

\* create_logger(self._log_period, "epoch"): log_function(epoch, logs)
LoggerEpochEnd ==
    /\ NextCallback("logger_callback")
    /\ logOut' = IF LogDue(epoch)
                 THEN Append(logOut, [level |-> "info", epoch |-> epoch])
                 ELSE logOut
    /\ UNCHANGED <<clf, loaded, disk, np_rng, tf_rng, call, pc, fitArgs, epoch, logs,
                   loss_to_monitor, validation_split, stop_training, es, lifeHist,
                   badEpoch, minSeen, flatRun, refBest, refRun>>

CallbacksDone == pc = "epoch_end" /\ cbIdx > Len(callbacks)

\* The training loop after on_epoch_end: "if self.stop_training: break" did
\* not break, the next epoch begins.
NextEpoch ==
    /\ CallbacksDone
    /\ ~stop_training
    /\ epoch' = epoch + 1
    /\ logs' = <<>>
    /\ cbIdx' = 0
    /\ pc' = "loop"
    /\ UNCHANGED <<lifeVars, fitArgs, loss_to_monitor, validation_split, stop_training,
                   es, logOut, lifeHist, runHist>>

\* The loop ends (the break, or every epoch has been run) and fit returns:
\* its locals and the callbacks are gone, the network and the log stay.
FitReturn ==
    /\ \/ CallbacksDone /\ stop_training
       \/ pc = "loop" /\ epoch >= fitArgs.epochs
    /\ pc' = "idle"
    /\ epoch' = 0
    /\ logs' = <<>>
    /\ cbIdx' = 0
    /\ loss_to_monitor' = "loss"
    /\ validation_split' = NoSplit
    /\ es' = EarlyStopping("loss")
    /\ fitted' = TRUE
    /\ minSeen' = PosInf
    /\ flatRun' = 0
    /\ refBest' = PosInf
    /\ refRun' = 0
    /\ handled' = NoHandled
    /\ logOut' = <<>>
    /\ badEpoch' = -1
    /\ UNCHANGED <<lifeVars, fitArgs, stop_training, fitCount, savedClf, prevFit>>

\* ------------------------------------------------- the calls between fits
Returned(op) == [op |-> op, raised |-> "none"]
Raised(op, error) == [op |-> op, raised |-> error]

\* A call that reads the Classifier and changes nothing but the call record.
\* What it returns is not kept by the program: the values are the operators
\* predict and predict_proba above.
ReadOnlyCall(outcome) ==
    /\ pc = "idle"
    /\ call' = outcome
    /\ loaded' = <<>>
    /\ UNCHANGED <<clf, disk, np_rng, tf_rng, runVars, lifeHist, runHist>>

\* self.model.predict(inputs) on a batch of width w: None has no predict,
\* and the network refuses a batch of another width.
ForwardError(c, w) ==
    IF c.model = {} THEN "AttributeError"
    ELSE IF TheModel(c).D # w THEN "ValueError"
    ELSE "none"

\* Classifier.predict on a batch of width w
PredictCall(w) ==
    ReadOnlyCall(IF ForwardError(clf, w) # "none"
                 THEN Raised("predict", ForwardError(clf, w))
                 ELSE Returned("predict"))

\* Classifier.predict_proba on a batch of width w
PredictProbaCall(w) ==
    ReadOnlyCall(IF ForwardError(clf, w) # "none"
                 THEN Raised("predict_proba", ForwardError(clf, w))
                 ELSE Returned("predict_proba"))

\* Classifier.evaluate on a test set of width w: the guard on self.model,
\* then self.model.evaluate.
Classifier_evaluate(c, w) ==
    IF c.model # {}
    THEN IF TheModel(c).D # w THEN Raised("evaluate", "ValueError")
         ELSE Returned("evaluate")
    ELSE Raised("evaluate", "NotFittedError")

EvaluateCall(w) == ReadOnlyCall(Classifier_evaluate(clf, w))

\* model_params of Classifier.save.
model_params(c) == [D |-> c.D, lr |-> c.lr, num_cps |-> c.num_cps]

\* Classifier.save into directory d: the directory after the call and the
\* exception, if any (joblib.dump cannot write into a missing directory).
Classifier_save(c, d) ==
    IF c.model = {} THEN [disk |-> d, raised |-> "NotFittedError"]
    ELSE IF ~d.exists THEN [disk |-> d, raised |-> "FileNotFoundError"]
    ELSE [disk |-> [exists |-> TRUE,
                    params |-> <<model_params(c)>>,
                    wts |-> <<TheModel(c).wts>>],
          raised |-> "none"]

SaveCall ==
    /\ pc = "idle"
    /\ LET r == Classifier_save(clf, disk)
       IN  /\ disk' = r.disk
           /\ call' = Raised("save", r.raised)
           /\ savedClf' = IF r.raised = "none" THEN <<clf>> ELSE savedClf
    /\ loaded' = <<>>
    /\ UNCHANGED <<clf, np_rng, tf_rng, runVars, fitted, fitCount, prevFit, runHist>>

\* save_predictor_model: os.makedirs when the directory is missing, then save.
SavePredictorModel ==
    /\ pc = "idle"
    /\ LET r == Classifier_save(clf, [disk EXCEPT !.exists = TRUE])
       IN  /\ disk' = r.disk
           /\ call' = Raised("save", r.raised)
           /\ savedClf' = IF r.raised = "none" THEN <<clf>> ELSE savedClf
    /\ loaded' = <<>>
    /\ UNCHANGED <<clf, np_rng, tf_rng, runVars, fitted, fitCount, prevFit, runHist>>

\* classifier_model.model.load_weights(...)
load_weightsSkipped(net, wts) == net
load_weights(net, wts) == [net EXCEPT !.wts = wts]

\* Classifier.load: cls(**model_params), build_model, load_weights.
LoadCall ==
    /\ pc = "idle"
    /\ IF ~disk.exists \/ disk.params = <<>>
       THEN /\ call' = Raised("load", "FileNotFoundError")
            /\ loaded' = <<>>
            /\ UNCHANGED <<np_rng, tf_rng>>
       ELSE LET kw == disk.params[1]
                c == Classifier(kw.D, kw.lr, kw.num_cps)
                b == build_model(c.D, c.lr, c.num_cps, np_rng, tf_rng)
            IN  /\ loaded' = <<[c EXCEPT !.model = {load_weights(b.net, disk.wts[1])}]>>
                /\ np_rng' = b.np
                /\ tf_rng' = b.tf
                /\ call' = Raised("load", "none")
    /\ UNCHANGED <<clf, disk, runVars, lifeHist, runHist>>

\* -------------------------------------------------------- the training runs
\* One Classifier, one fit call with an epoch limit beyond the patience.
\* Short runs on every row count of interest, long runs at the threshold.
SplitRows == {50, MinSplitRows - 1, MinSplitRows, MinSplitRows + 1}
TrainRows == {MinSplitRows - 1, MinSplitRows}

InitTrain ==
    /\ Init
    /\ clf = Classifier(NoneD, 1, DefaultNumCps)

NextTrain ==
    \/ \E n \in SplitRows : ~fitCalled /\ FitBuild(1, n, 1, TRUE)
    \/ \E n \in TrainRows : ~fitCalled /\ FitBuild(1, n, MaxEpochs, TRUE)
    \/ FitSetSeed
    \/ FitStartTraining
    \/ TrainEpoch(Losses)
    \/ EarlyStoppingEpochEnd
    \/ InfCostEpochEnd
    \/ LoggerEpochEnd
    \/ NextEpoch
    \/ FitReturn

SpecTrain == InitTrain /\ [][NextTrain]_vars

\* ------------------------------------------------ claims on the training run
Records(level) == {i \in 1..Len(logOut) : logOut[i].level = level}

\* EarlyStopping stopped the run (Keras reports it when stopped_epoch > 0).
Plateaued == es.stopped_epoch > 0 /\ stop_training

\* C1: once an epoch's training loss is NaN or infinite, training stops as
\* diverged at that epoch: the epoch counter never moves past it, no further
\* epoch is trained, no log record of a later epoch is emitted, and the run
\* never goes back to the loop, whatever the early-stop counter holds and
\* however many epochs remain.
C1_DivergenceStops ==
    badEpoch # -1 =>
        /\ pc = "epoch_end"
        /\ epoch = badEpoch
        /\ Len(TheModel(clf).wts.updates) = badEpoch + 1
        /\ \A i \in 1..Len(logOut) : logOut[i].epoch <= badEpoch
        /\ handled["infcost_stop_callback"] = badEpoch =>
               /\ stop_training
               /\ \E i \in Records("warning") : logOut[i].epoch = badEpoch

C1_Witness ==
    /\ CallbacksDone
    /\ badEpoch >= 1
    /\ badEpoch + 1 < fitArgs.epochs
    /\ es.wait > 0
    /\ es.wait < Patience
    /\ stop_training

\* C2 as stated: training stops as plateaued exactly at the end of the first
\* epoch that completes 20 consecutive epochs whose monitored loss was not
\* lower than the best value seen so far by at least min_delta, and an epoch
\* that is lower by at least min_delta resets the count to zero.
C2_AsStated ==
    /\ CallbacksDone => (Plateaued <=> flatRun >= Patience)
    /\ (pc = "epoch_end" /\ handled["early_stop_callback"] = epoch /\ flatRun = 0)
           => es.wait = 0

\* C2 as amended: training stops as plateaued exactly at the end of the first
\* epoch that completes 20 consecutive epochs whose monitored loss was not
\* lower by MORE THAN min_delta than the reference value (the monitored loss
\* of the last epoch that was), never before; an epoch that is lower than the
\* reference by more than min_delta resets the count to zero, and the count
\* is the number of epochs since.
C2_Plateau ==
    /\ CallbacksDone => (Plateaued <=> refRun >= Patience)
    /\ (pc = "epoch_end" /\ handled["early_stop_callback"] = epoch)
           => /\ es.wait = refRun
              /\ es.best = refBest
    /\ Plateaued => es.stopped_epoch = epoch

C2_Witness ==
    /\ CallbacksDone
    /\ Plateaued
    /\ epoch > Patience
    /\ refBest.tag = "fin"
    /\ badEpoch = -1

\* C9 as stated: at every epoch's end the divergence check runs first, then
\* the early-stop bookkeeping, then the periodic log.
C9_AsStated ==
    /\ handled["early_stop_callback"] = epoch => handled["infcost_stop_callback"] = epoch
    /\ handled["logger_callback"] = epoch => handled["early_stop_callback"] = epoch

\* C9 as amended: at every epoch's end the early-stop bookkeeping runs first,
\* then the divergence check, then the periodic log; a log record is emitted
\* for exactly the handled epochs divisible by 10, and the divergence warning
\* of an epoch precedes that epoch's log record.
C9_Order ==
    /\ handled["infcost_stop_callback"] = epoch => handled["early_stop_callback"] = epoch
    /\ handled["logger_callback"] = epoch => handled["infcost_stop_callback"] = epoch
    /\ \A i \in Records("info") :
           logOut[i].epoch % LogPeriod = 0 /\ logOut[i].epoch <= handled["logger_callback"]
    /\ \A e \in 0..handled["logger_callback"] :
           e % LogPeriod = 0 => \E i \in Records("info") : logOut[i].epoch = e
    /\ \A i \in Records("info"), j \in Records("warning") :
           logOut[i].epoch = logOut[j].epoch => j < i

C9_Witness ==
    /\ CallbacksDone
    /\ epoch = LogPeriod
    /\ badEpoch = epoch
    /\ es.wait > 0
    /\ Len(logOut) = 3

\* C10: in a run that monitors the validation loss, an epoch whose
\* validation loss is NaN or infinite while its training loss is finite is
\* not stopped as diverged: no warning is logged for it, and once the
\* divergence check has run, training is stopped only if the early-stop
\* patience is exhausted at this epoch.
C10_ValidationLossIgnored ==
    (/\ pc = "epoch_end"
     /\ loss_to_monitor = "val_loss"
     /\ handled["infcost_stop_callback"] = epoch
     /\ Diverged(logs.val_loss)
     /\ ~Diverged(logs.loss))
        => /\ \A i \in Records("warning") : logOut[i].epoch # epoch
           /\ stop_training => (es.wait >= Patience /\ es.stopped_epoch = epoch)

C10_Witness ==
    /\ CallbacksDone
    /\ loss_to_monitor = "val_loss"
    /\ logs.val_loss = NaN
    /\ logs.loss.tag = "fin"
    /\ ~stop_training
    /\ es.wait > 1
    /\ epoch + 1 < fitArgs.epochs

\* The loss the claim has the run monitor.
ClaimedMonitor == IF fitArgs.nrows >= 300 THEN "val_loss" ELSE "loss"

\* C7: fit monitors the validation loss, with a 15% validation split, exactly
\* when the training set has at least 300 rows, and the training loss with no
\* split exactly when it has fewer; the epoch's metrics hold a validation
\* loss exactly in the first case, and the early-stop check reads the loss
\* selected this way (an improving epoch's value becomes its best value).
C7_MonitoredLoss ==
    /\ pc \in {"loop", "epoch_end"} =>
           /\ loss_to_monitor = ClaimedMonitor
           /\ es.monitor = ClaimedMonitor
           /\ validation_split =
                  (IF fitArgs.nrows >= 300 THEN ValidationSplitPct ELSE NoSplit)
    /\ pc = "epoch_end" =>
           /\ ("val_loss" \in DOMAIN logs) <=> (fitArgs.nrows >= 300)
           /\ (handled["early_stop_callback"] = epoch /\ es.wait = 0)
                  => es.best = logs[ClaimedMonitor]

C7_Witness ==
    /\ pc = "epoch_end"
    /\ fitArgs.nrows = 300
    /\ handled["early_stop_callback"] = epoch
    /\ es.wait = 0
    /\ logs.val_loss # logs.loss
    /\ es.best = logs.val_loss

\* ------------------------------------------------------ the lifecycle runs
\* Any Classifier, any sequence of calls, with short training runs.
LifeRows == {MinSplitRows - 1}

Next ==
    \/ \E w \in Widths, n \in LifeRows, e \in ShortEpochs, ok \in BOOLEAN :
           fitCount < MaxFits /\ FitBuild(w, n, e, ok)
    \/ FitSetSeed
    \/ FitStartTraining
    \/ FitTrainingRaises
    \/ TrainEpoch(CoarseLosses)
    \/ EarlyStoppingEpochEnd
    \/ InfCostEpochEnd
    \/ LoggerEpochEnd
    \/ NextEpoch
    \/ FitReturn
    \/ \E w \in Widths : PredictCall(w)
    \/ \E w \in Widths : PredictProbaCall(w)
    \/ \E w \in Widths : EvaluateCall(w)
    \/ SaveCall
    \/ SavePredictorModel
    \/ LoadCall

Spec == Init /\ [][Next]_vars

\* --------------------------------------------------- claims on the lifecycle
\* C3 as stated: evaluate and save raise NotFittedError whenever no fit call
\* has returned normally, also after a fit call that failed part-way, and
\* save has then written no artifact.
C3_AsStated ==
    (pc = "idle" /\ ~fitted /\ call.op \in {"evaluate", "save"})
        => /\ call.raised = "NotFittedError"
           /\ disk.params = <<>>
           /\ disk.wts = <<>>

SameFitInputs(a, b) ==
    /\ a.width = b.width
    /\ a.nrows = b.nrows
    /\ a.epochs = b.epochs
    /\ a.targetsOk = b.targetsOk
    /\ a.lr = b.lr
    /\ a.num_cps = b.num_cps

\* C4 as stated: two fit calls on identical data with identical
\* hyperparameters and epoch limit start from identical initial networks
\* (every random draw of a fit call follows its seeding).
C4_AsStated ==
    (/\ pc = "idle"
     /\ call = [op |-> "fit", raised |-> "none"]
     /\ prevFit # <<>>
     /\ prevFit[1].targetsOk
     /\ SameFitInputs(prevFit[1], ThisFit))
        => prevFit[1].init.act = ThisFit.init.act
           /\ prevFit[1].init.dense = ThisFit.init.dense

\* C5 as stated: once a fit call has begun D is known, and no later step
\* changes it.
C5_AsStated ==
    /\ [](fitCalled => clf.D # NoneD)
    /\ [][fitCalled => clf'.D = clf.D]_vars

\* C5 as amended: D is unknown at most until the first fit call; every fit
\* call sets D to the width of its inputs as it begins, and no other step
\* (predict, predict_proba, evaluate, save, load, the rest of fit) changes D.
C5_DSetByFit ==
    /\ [](fitCalled => clf.D # NoneD)
    /\ [](pc # "idle" => clf.D = fitArgs.width)
    /\ [][clf'.D # clf.D => (pc = "idle" /\ pc' = "built" /\ clf'.D = fitArgs'.width)]_vars

C5_Witness ==
    /\ pc = "idle"
    /\ prevFit # <<>>
    /\ prevFit[1].width # fitArgs.width
    /\ clf.D = fitArgs.width
    /\ call = [op |-> "save", raised |-> "none"]

\* C6: right after a load that follows a save, the loaded Classifier has a
\* network, its hyperparameters (D, lr, num_cps) and its network's weights
\* are those of the Classifier as it was saved, and predict and
\* predict_proba agree with it on every input.
C6_RoundTrip ==
    (call = [op |-> "load", raised |-> "none"])
        => /\ loaded # <<>>
           /\ savedClf # <<>>
           /\ loaded[1].model # {}
           /\ loaded[1].D = savedClf[1].D
           /\ loaded[1].lr = savedClf[1].lr
           /\ loaded[1].num_cps = savedClf[1].num_cps
           /\ TheModel(loaded[1]).D = savedClf[1].D
           /\ TheModel(loaded[1]).wts = TheModel(savedClf[1]).wts
           /\ \A x \in 0..MaxX :
                  /\ predict(TheModel(loaded[1]), x) = predict(TheModel(savedClf[1]), x)
                  /\ predict_proba(TheModel(loaded[1]), x)
                         = predict_proba(TheModel(savedClf[1]), x)

C6_Witness ==
    /\ call = [op |-> "load", raised |-> "none"]
    /\ fitted
    /\ Len(TheModel(loaded[1]).wts.updates) > 0
    /\ clf # savedClf[1]

\* The network of the running fit call is one this call built (of the width
\* of this call's inputs), trained for the epochs this call has run and for
\* no others.
FreshlyBuilt ==
    LET net == TheModel(clf)
    IN  /\ net.D = fitArgs.width
        /\ Len(net.wts.updates) = (IF pc = "epoch_end" THEN epoch + 1 ELSE epoch)

\* C8: a Classifier owns at most one network; it has none until a fit call
\* begins; every fit call replaces the network by a freshly built one and
\* trains that one; and through fit, predict, predict_proba, evaluate, save
\* and load a network that is present never becomes absent.
C8_OneNetwork ==
    /\ [](Cardinality(clf.model) <= 1)
    /\ [](~fitCalled => clf.model = {})
    /\ [](pc # "idle" => (clf.model # {} /\ FreshlyBuilt))
    /\ [][clf.model # {} => clf'.model # {}]_vars

C8_Witness ==
    /\ pc = "built"
    /\ prevFit # <<>>
    /\ fitted
    /\ prevFit[1].targetsOk
    /\ prevFit[1].width = fitArgs.width

====
